---- MODULE Spec2Model ----
(***************************************************************************)
(* ReadParliament: the per-id walk of DataProcessor.read_divisions and the *)
(* aggregation of member votes into the divisions and members registries.  *)
(*                                                                         *)
(* Strings that the code takes apart (member names, ISO timestamps) are    *)
(* modelled by their structure: a name is a sequence of characters, a      *)
(* timestamp string is a record of its date part, time part and suffix.    *)
(* Calendar dates are the integers YYYYMMDD, times of day the integers     *)
(* HHMM, so that integer order is calendar order.                          *)
(***************************************************************************)
EXTENDS Integers, Sequences, FiniteSets, TLC

\* ------------------------------------------------------------------ config.py
DIVISION_START == 723

\* number of ids walked (the source walks 723..1809)
NumDivisions == 2

DIVISION_END == DIVISION_START + NumDivisions

\* "2019-12-11" and "2024-07-03" as YYYYMMDD
DATE_START == 20191211

DATE_END == 20240703

\* ------------------------------------------------------------------ models.py
Missing == -9

AyeTeller == 1

Aye == 2

Both == 3

No == 4

NoTeller == 5

Vote == {Missing, AyeTeller, Aye, Both, No, NoTeller}

\* Python's None for an optional string field
None == "<None>"

RequiredMemberFields == {"MemberId", "Name", "Party"}

\* a DivisionDto whose five list fields have no default either
RequiredDivisionFieldsAndLists ==
    {"DivisionId", "Date", "Title", "AyeCount", "NoCount",
     "Ayes", "AyeTellers", "Noes", "NoTellers", "NoVoteRecorded"}

RequiredDivisionFields == {"DivisionId", "Date", "Title", "AyeCount", "NoCount"}

\* the five member lists of a division document, in the order read_divisions
\* applies them, with the vote code each one is applied with
CategoryFields == <<"Ayes", "AyeTellers", "Noes", "NoTellers", "NoVoteRecorded">>

\* the not-recorded list applied with the sixth value of the enumeration
CategoryVoteWithBoth == <<Aye, AyeTeller, No, NoTeller, Both>>

CategoryVote == <<Aye, AyeTeller, No, NoTeller, Missing>>

\* ------------------------------------------------------------ datetime values
\* datetime.fromisoformat(DATE_START): a naive datetime at midnight
NaiveMidnight(day) == [day |-> day, hhmm |-> 0, tz |-> "naive"]

\* ApiClient._deserialise_datetime: replace 'Z' by '+00:00', then fromisoformat.
\* Result [ok, value]; ok = FALSE is the ValueError of fromisoformat.
DeserialiseDatetime(date_string) ==
    LET cleaned == [date_string EXCEPT !.suffix = IF @ = "Z" THEN "+00:00" ELSE @]
    IN  IF cleaned.day = 0
        THEN [ok |-> FALSE, value |-> NaiveMidnight(0)]
        ELSE [ok |-> TRUE,
              value |-> [day  |-> cleaned.day,
                         hhmm |-> cleaned.hhmm,
                         tz   |-> IF cleaned.suffix = "+00:00" THEN "utc" ELSE "naive"]]

\* datetime < datetime; comparing a naive with an aware datetime raises TypeError
ComparisonRaises(a, b) == a.tz # b.tz

DatetimeLess(a, b) == a.day < b.day \/ (a.day = b.day /\ a.hhmm < b.hhmm)

\* -------------------------------------------------------------- name splitting
IsSpace(c) == c = " "

RECURSIVE DropSpaces(_)
DropSpaces(s) == IF s # <<>> /\ IsSpace(Head(s)) THEN DropSpaces(Tail(s)) ELSE s

RECURSIVE TakeWord(_)
TakeWord(s) == IF s = <<>> \/ IsSpace(Head(s)) THEN <<>> ELSE <<Head(s)>> \o TakeWord(Tail(s))

RECURSIVE DropWord(_)
DropWord(s) == IF s = <<>> \/ IsSpace(Head(s)) THEN s ELSE DropWord(Tail(s))

\* str.split(maxsplit=1): the list of at most two parts
SplitMax1(name) ==
    LET s    == DropSpaces(name)
        rest == DropSpaces(DropWord(s))
    IN  IF s = <<>> THEN <<>>
        ELSE IF rest = <<>> THEN <<TakeWord(s)>>
        ELSE <<TakeWord(s), rest>>

\* ------------------------------------------------- _add_member_vote_category
\* MemberDat created on first encounter (lines 193-205)
NewMemberDat(member) ==
    LET name_parts == SplitMax1(member.Name)
    IN  [member_id      |-> member.MemberId,
         first_name     |-> name_parts[1],
         surname        |-> IF Len(name_parts) > 1 THEN name_parts[2] ELSE <<>>,
         party          |-> IF member.PartyAbbreviation \in {None, ""}
                            THEN member.Party ELSE member.PartyAbbreviation,
         division_votes |-> <<>>]

\* "if member_id not in self.members": the registry with the member's record
\* created when it is new, unchanged otherwise
EnsureMember(members, member) ==
    IF member.MemberId \in DOMAIN members
    THEN members
    ELSE members @@ (member.MemberId :> NewMemberDat(member))

\* the creation raises IndexError (name_parts[0]) for a name without any word
CreationRaises(members, member) ==
    member.MemberId \notin DOMAIN members /\ SplitMax1(member.Name) = <<>>

DuplicateMsg(member_id, division_id, vote, existing) ==
    [MPid |-> member_id, DivisionId |-> division_id, Vote |-> vote, existing |-> existing]

\* RecordVote with the vote assigned also when the pair has one (no else branch)
RecordVoteOverwrite(st, division_id, member_id, vote) ==
    LET votes == st.members[member_id].division_votes
    IN  IF division_id \in DOMAIN votes
        THEN [st EXCEPT !.printed = Append(@, DuplicateMsg(member_id, division_id,
                                                           vote, votes[division_id])),
                        !.members[member_id].division_votes =
                            [votes EXCEPT ![division_id] = vote],
                        !.attempts = @ + 1]
        ELSE [st EXCEPT !.members[member_id].division_votes = votes @@ (division_id :> vote),
                        !.attempts = @ + 1]

\* RecordVote that stores no entry for the code that is also the default of the
\* matrix
RecordVoteUnlessMissing(st, division_id, member_id, vote) ==
    LET votes == st.members[member_id].division_votes
    IN  IF division_id \in DOMAIN votes
        THEN [st EXCEPT !.printed = Append(@, DuplicateMsg(member_id, division_id,
                                                           vote, votes[division_id])),
                        !.attempts = @ + 1]
        ELSE IF vote = Missing
        THEN [st EXCEPT !.attempts = @ + 1]
        ELSE [st EXCEPT !.members[member_id].division_votes = votes @@ (division_id :> vote),
                        !.attempts = @ + 1]

\* RecordVote with the duplicate dropped without a message
RecordVoteSilent(st, division_id, member_id, vote) ==
    LET votes == st.members[member_id].division_votes
    IN  IF division_id \in DOMAIN votes
        THEN [st EXCEPT !.attempts = @ + 1]
        ELSE [st EXCEPT !.members[member_id].division_votes = votes @@ (division_id :> vote),
                        !.attempts = @ + 1]

\* lines 207-216 for one member whose record exists. st is the state of the
\* call: [members, printed, attempts, handled, raised], where printed collects the
\* Duplicate messages, attempts counts the passes that reached line 209, handled
\* lists the entries the loop body was entered for and raised names the exception
\* that ended the call ("" for none)
RecordVote(st, division_id, member_id, vote) ==
    LET votes == st.members[member_id].division_votes
    IN  IF division_id \in DOMAIN votes
        THEN [st EXCEPT !.printed = Append(@, DuplicateMsg(member_id, division_id,
                                                           vote, votes[division_id])),
                        !.attempts = @ + 1]
        ELSE [st EXCEPT !.members[member_id].division_votes = votes @@ (division_id :> vote),
                        !.attempts = @ + 1]

\* one pass of the "for member in members" loop body (lines 188-216)
AddMemberVote(st, division_id, member, vote) ==
    IF st.raised # "" THEN st
    ELSE IF CreationRaises(st.members, member)
    THEN [st EXCEPT !.raised = "IndexError", !.handled = Append(@, member)]
    ELSE RecordVote([st EXCEPT !.members = EnsureMember(st.members, member),
                               !.handled = Append(@, member)],
                    division_id, member.MemberId, vote)

RECURSIVE AddMemberVoteCategory(_, _, _, _)
AddMemberVoteCategory(st, division_id, members, vote) ==
    IF members = <<>> THEN st
    ELSE AddMemberVoteCategory(AddMemberVote(st, division_id, Head(members), vote),
                               division_id, Tail(members), vote)

\* --------------------------------------------------------- _parse_division_dto
\* MemberDto(**member_data) raises TypeError when a required field is missing
MemberDtoRaises(member_data) == ~ (RequiredMemberFields \subseteq DOMAIN member_data)

\* "if field in raw_data and raw_data[field]" ... else []
ParsedList(raw_data, field) ==
    IF field \in DOMAIN raw_data /\ raw_data[field] # <<>> THEN raw_data[field] ELSE <<>>

\* Result [raised, dto]; raised = "" when a DivisionDto was built
ParseDivisionDto(raw_data) ==
    LET date == IF "Date" \in DOMAIN raw_data
                THEN DeserialiseDatetime(raw_data["Date"])
                ELSE [ok |-> TRUE, value |-> NaiveMidnight(0)]
        lists == [i \in 1..Len(CategoryFields) |-> ParsedList(raw_data, CategoryFields[i])]
    IN  IF ~ date.ok
        THEN [raised |-> "ValueError", Date |-> date.value, lists |-> lists]
        ELSE IF \E i \in DOMAIN lists : \E k \in DOMAIN lists[i] : MemberDtoRaises(lists[i][k])
        THEN [raised |-> "TypeError", Date |-> date.value, lists |-> lists]
        ELSE IF ~ (RequiredDivisionFields \subseteq DOMAIN raw_data)
        THEN [raised |-> "TypeError", Date |-> date.value, lists |-> lists]
        ELSE [raised |-> "", Date |-> date.value, lists |-> lists]

\* -------------------------------------------------------------- read_divisions
\* an event that is not registered before its lists are aggregated
StoreDivisionSkipped(divisions, division_id, date, title) == divisions

\* self.divisions[DivisionId] = DivisionDat(...) (lines 71-75): a dict assignment
StoreDivision(divisions, division_id, date, title) ==
    [d \in DOMAIN divisions \cup {division_id} |->
        IF d = division_id
        THEN [division_id |-> division_id, date |-> date, bill_name |-> title]
        ELSE divisions[d]]

\* the five _add_member_vote_category calls in the order of lines 78-102
RECURSIVE AddCategoriesFrom(_, _, _, _)
AddCategoriesFrom(i, st, division_id, lists) ==
    IF i > Len(CategoryFields) THEN st
    ELSE AddCategoriesFrom(i + 1,
                           AddMemberVoteCategory(st, division_id, lists[i], CategoryVote[i]),
                           division_id, lists)

\* a range test without its upper limit
OutOfRangeLowerOnly(date) == DatetimeLess(date, NaiveMidnight(DATE_START))

\* the date range test of line 67 on a parsed datetime
OutOfRange(date) ==
    \/ DatetimeLess(date, NaiveMidnight(DATE_START))
    \/ DatetimeLess(NaiveMidnight(DATE_END), date)

\* the member ids of the five parsed lists
ListedIds(lists) == [i \in DOMAIN lists |-> [k \in DOMAIN lists[i] |-> lists[i][k].MemberId]]

NoLists == [i \in 1..Len(CategoryFields) |-> <<>>]

NoDate == [day |-> 0, hhmm |-> 0, suffix |-> ""]

\* The try body (lines 63-102) on a fetched document. Result: the registries
\* after the body and how it ended: outcome "stored", "rejected" (the continue of
\* line 68) or "error" (an exception reached the handler of line 108); decoded:
\* a DivisionDto was built; admitted: line 70 was reached.
ProcessDocument(divisions, members, raw_data) ==
    LET dto  == ParseDivisionDto(raw_data)
        same == [divisions |-> divisions, members |-> members, printed |-> <<>>,
                 attempts |-> 0, handled |-> <<>>, admitted |-> FALSE,
                 Date |-> IF "Date" \in DOMAIN raw_data THEN raw_data["Date"] ELSE NoDate]
    IN  IF dto.raised # ""
        THEN same @@ [outcome |-> "error", raised |-> dto.raised, decoded |-> FALSE,
                      DivisionId |-> 0, listed |-> NoLists]
        ELSE IF ComparisonRaises(dto.Date, NaiveMidnight(DATE_START))
        THEN same @@ [outcome |-> "error", raised |-> "TypeError", decoded |-> TRUE,
                      DivisionId |-> raw_data["DivisionId"], listed |-> ListedIds(dto.lists)]
        ELSE IF OutOfRange(dto.Date)
        THEN same @@ [outcome |-> "rejected", raised |-> "", decoded |-> TRUE,
                      DivisionId |-> raw_data["DivisionId"], listed |-> ListedIds(dto.lists)]
        ELSE LET id == raw_data["DivisionId"]
                 st == AddCategoriesFrom(1,
                           [members |-> members, printed |-> <<>>, attempts |-> 0,
                            handled |-> <<>>, raised |-> ""],
                           id, dto.lists)
             IN  [divisions  |-> StoreDivision(divisions, id, dto.Date, raw_data["Title"]),
                  members    |-> st.members,
                  printed    |-> st.printed,
                  attempts   |-> st.attempts,
                  handled    |-> st.handled,
                  admitted   |-> TRUE,
                  decoded    |-> TRUE,
                  Date       |-> raw_data["Date"],
                  DivisionId |-> id,
                  listed     |-> ListedIds(dto.lists),
                  outcome    |-> IF st.raised = "" THEN "stored" ELSE "error",
                  raised     |-> st.raised]

\* the handler of lines 104-107 with a break in place of the continue
HandleRequestExceptionBreak(no) == DIVISION_END

\* the handler of lines 104-107: the id is reported and the loop continues
HandleRequestException(no) == no + 1

\* a handler that leaves the loop instead of continuing
HandleExceptionBreak(no) == DIVISION_END

\* the handler of lines 108-111
HandleException(no) == no + 1

\* ------------------------------------------------------------- output_writer.py
\* sorted(keys) of a list of distinct integers
RECURSIVE Sorted(_)
Sorted(keys) ==
    IF keys = <<>> THEN <<>>
    ELSE LET i == CHOOSE k \in DOMAIN keys : \A j \in DOMAIN keys : keys[k] <= keys[j]
         IN  <<keys[i]>> \o Sorted([k \in 1..(Len(keys) - 1) |->
                                      IF k < i THEN keys[k] ELSE keys[k + 1]])

\* str(int(vote))
VoteText(vote) ==
    CASE vote = Missing   -> "-9"
      [] vote = AyeTeller -> "1"
      [] vote = Aye       -> "2"
      [] vote = Both      -> "3"
      [] vote = No        -> "4"
      [] vote = NoTeller  -> "5"

\* f'mpid{mp_id}'
MpidColumn(mp_id) == <<"mpid", mp_id>>

\* division.date.strftime('%Y-%m-%d'): the calendar day, time and offset dropped
DateText(date) == date.day

\* a get() whose default is the first value of the enumeration that is not a code
\* of any category
CellVoteDefaultBoth(member, division_id) ==
    IF division_id \in DOMAIN member.division_votes
    THEN member.division_votes[division_id]
    ELSE Both

\* division_votes.get(division_id, Vote.Missing) (lines 66-69)
CellVote(member, division_id) ==
    IF division_id \in DOMAIN member.division_votes
    THEN member.division_votes[division_id]
    ELSE Missing

\* the column order of line 43 and the row order of line 52
ColumnOrder(member_keys) == Sorted(member_keys)

\* rows in the order the dict yields its keys
RowOrderInserted(division_keys) == division_keys

RowOrder(division_keys) == Sorted(division_keys)

\* one data row (lines 53-72)
DatRow(division, members, mp_ids) ==
    [rowid  |-> division.division_id,
     date   |-> DateText(division.date),
     voteno |-> division.division_id,
     Bill   |-> division.bill_name,
     cells  |-> [j \in DOMAIN mp_ids |-> VoteText(CellVote(members[mp_ids[j]],
                                                          division.division_id))]]

\* The text write_dat_file writes (lines 40-72); the dicts are given with their
\* keys in insertion order.
DatFile(divisions, division_keys, members, member_keys) ==
    LET mp_ids == ColumnOrder(member_keys)
        rows   == RowOrder(division_keys)
    IN  [header  |-> <<"rowid", "date", "voteno", "Bill">>,
         columns |-> [j \in DOMAIN mp_ids |-> MpidColumn(mp_ids[j])],
         rows    |-> [i \in DOMAIN rows |-> DatRow(divisions[rows[i]], members, mp_ids)]]

\* a lookup that stores the default it returns (setdefault)
MembersAfterWriteFilled(divisions, members) ==
    [m \in DOMAIN members |->
        [members[m] EXCEPT !.division_votes =
            [d \in DOMAIN members[m].division_votes \cup DOMAIN divisions |->
                CellVote(members[m], d)]]]

\* the registry of members after write_dat_file: get() reads, nothing is assigned
MembersAfterWrite(divisions, members) == members

\* "for i in range(19)" of write_txt_file
PaddingRows == 19

\* the text write_txt_file writes (lines 84-101)
TxtFile(members, member_keys) ==
    LET ids == Sorted(member_keys)
    IN  [padding |-> PaddingRows,
         header  |-> <<"mpid", "firstname", "surname", "party", "PublicWhip URL">>,
         rows    |-> [j \in DOMAIN ids |->
                        [mpid |-> members[ids[j]].member_id,
                         firstname |-> members[ids[j]].first_name,
                         surname |-> members[ids[j]].surname,
                         party |-> members[ids[j]].party,
                         url |-> "<empty>"]]]

\* no file of that name was written
NoFile == [header |-> <<>>]

\* a writer that is also called from inside the loop
WriterReachedInLoop(p) == p \in {"walk", "walked"}

\* main writes the output once process_divisions has returned (main.py:45-50)
WriterReached(p) == p = "walked"

\* ------------------------------------------------------------------- the inputs
\* most times one member is listed in one category list
MaxRepeat == 2

DivisionNos == DIVISION_START .. (DIVISION_END - 1)

\* The DivisionId a document carries is read from the document, not from the
\* URL: the document fetched for id no carries no, or the first id of the range
\* again.
DivisionIds(no) == {no, DIVISION_START}

MemberIds == {5, 6}

JoSmith == <<"J", "o", " ", "S", "m", "i", "t", "h">>

JDotSmith == <<"J", ".", " ", " ", "S", "m", "i", "t", "h">>

Cher == <<"C", "h", "e", "r">>

\* name, party and party abbreviation as one member entry of a document gives them
Jo == [Name |-> JoSmith, Party |-> "X", PartyAbbreviation |-> None]

JDot == [Name |-> JDotSmith, Party |-> "Y", PartyAbbreviation |-> ""]

CherYL == [Name |-> Cher, Party |-> "Yellow", PartyAbbreviation |-> "YL"]

Nameless == [Name |-> <<>>, Party |-> "X", PartyAbbreviation |-> None]

Identities == {Jo, JDot, CherYL, Nameless}

MemberJson(id, ident) ==
    [MemberId |-> id, Name |-> ident.Name, Party |-> ident.Party,
     PartyAbbreviation |-> ident.PartyAbbreviation]

MemberData == { MemberJson(id, ident) : id \in MemberIds, ident \in Identities }

\* timestamp strings: "<day>", "<day>T14:30:00", with or without a trailing "Z";
\* day 0 is a string fromisoformat rejects
Days == {DATE_START - 1, DATE_START, DATE_END, DATE_END + 1}

DateStrings ==
    [day : Days, hhmm : {0, 1430}, suffix : {""}]
        \cup [day : {DATE_START, DATE_END}, hhmm : {0, 1430}, suffix : {"Z"}]
        \cup {[day |-> 0, hhmm |-> 0, suffix |-> ""]}

InRangeString == [day |-> DATE_START, hhmm |-> 1430, suffix |-> ""]

RawDocument(id, date, title, lists) ==
    [DivisionId |-> id, Date |-> date, Title |-> title, AyeCount |-> 0, NoCount |-> 0,
     Ayes |-> lists[1], AyeTellers |-> lists[2], Noes |-> lists[3],
     NoTellers |-> lists[4], NoVoteRecorded |-> lists[5]]

Without(raw_data, fields) == [f \in DOMAIN raw_data \ fields |-> raw_data[f]]

\* the member lists of a document with entries es, a sequence of <<category, member>>
ListsOf(es) ==
    [i \in 1..Len(CategoryFields) |->
        LET InCat(e) == e[1] = i
            sel == SelectSeq(es, InCat)
        IN  [k \in 1..Len(sel) |-> sel[k][2]]]

Categories == 1..Len(CategoryFields)

\* one member in one category: every category, and every identity
SingleEntries ==
    { <<<<c, MemberJson(5, Jo)>>>> : c \in Categories }
        \cup { <<<<1, m>>>> : m \in MemberData }

\* one member id in two categories of the same document, under two names
CollisionEntries ==
    { <<<<c[1], MemberJson(5, Jo)>>, <<c[2], MemberJson(5, JDot)>>>> :
        c \in { p \in Categories \X Categories : p[1] < p[2] } }

\* one member listed several times in the same category
RepeatEntries ==
    { [k \in 1..n |-> <<3, MemberJson(6, CherYL)>>] : n \in 2..MaxRepeat }

\* two members, the second or the first of them without a name
PairEntries ==
    { <<<<2, MemberJson(5, Jo)>>, <<5, MemberJson(6, CherYL)>>>>,
      <<<<1, MemberJson(5, Jo)>>, <<1, MemberJson(6, Nameless)>>>>,
      <<<<1, MemberJson(6, Nameless)>>, <<3, MemberJson(5, Jo)>>>> }

ListChoices ==
    { ListsOf(es) : es \in {<<>>} \cup SingleEntries \cup CollisionEntries
                              \cup RepeatEntries \cup PairEntries }

OneAye == ListsOf(<<<<1, MemberJson(5, Jo)>>>>)

\* documents that differ in their timestamp
TimestampDocs(no) ==
    { RawDocument(id, ds, "Bill B", OneAye) : id \in DivisionIds(no), ds \in DateStrings }

\* documents that differ in their member lists
VoteDocs(no) ==
    { RawDocument(id, InRangeString, "Bill A", ls) : id \in DivisionIds(no), ls \in ListChoices }

\* documents that lack a required field
UndecodableDocs(no) ==
    { Without(RawDocument(no, InRangeString, "Bill A", OneAye), {"Title"}),
      RawDocument(no, InRangeString, "Bill A",
                  ListsOf(<<<<1, Without(MemberJson(5, Jo), {"Party"})>>>>)) }

Documents(no) == TimestampDocs(no) \cup VoteDocs(no) \cup UndecodableDocs(no)

NoJson == [DivisionId |-> 0]

\* what session.get / raise_for_status / response.json() give for the URL of id no
Responses(no) ==
    { [status |-> 200, json |-> d] : d \in Documents(no) }
        \cup { [status |-> 404, json |-> NoJson] }

\* ------------------------------------------------------------------- the state
VARIABLES
    pc,           \* where main is: "walk" inside the loop of read_divisions, "walked"
                  \* after it, "dat_written", "complete", or "interrupted"
    division_no,  \* the loop variable: the next id to fetch
    divisions,    \* self.divisions
    members,      \* self.members
    last,         \* what the latest pass of the loop was given, did and printed
    first_seen,   \* per member id, the first entry the aggregation loop was entered for
    api,          \* the responses fixed in advance, by id (empty: not fixed)
    division_keys, \* the keys of self.divisions in insertion order
    member_keys,  \* the keys of self.members in insertion order
    dat_file,     \* the matrix file on disk
    txt_file      \* the metadata file on disk

vars == <<pc, division_no, divisions, members, last, first_seen, api,
          division_keys, member_keys, dat_file, txt_file>>

NoPass ==
    [division_no |-> 0, outcome |-> "none", raised |-> "", decoded |-> FALSE,
     admitted |-> FALSE, known |-> FALSE, DivisionId |-> 0, Date |-> NoDate,
     listed |-> NoLists, printed |-> <<>>, attempts |-> 0]

Init ==
    /\ pc = "walk"
    /\ division_no = DIVISION_START
    /\ divisions = <<>>
    /\ members = <<>>
    /\ last = NoPass
    /\ first_seen = <<>>
    /\ api = <<>>
    /\ division_keys = <<>>
    /\ member_keys = <<>>
    /\ dat_file = NoFile
    /\ txt_file = NoFile

ResponseFor(no) == IF no \in DOMAIN api THEN {api[no]} ELSE Responses(no)

\* first_seen after the loop body was entered for the entries of handled, in order
RECURSIVE NoteFirstSeen(_, _)
NoteFirstSeen(seen, handled) ==
    IF handled = <<>> THEN seen
    ELSE NoteFirstSeen(IF Head(handled).MemberId \in DOMAIN seen
                       THEN seen
                       ELSE seen @@ (Head(handled).MemberId :> Head(handled)),
                       Tail(handled))

\* the keys of self.members after the entries of handled were aggregated: a key
\* is appended when its MemberDat is created (line 199)
RECURSIVE NoteInserted(_, _, _)
NoteInserted(keys, handled, members_after) ==
    IF handled = <<>> THEN keys
    ELSE LET id == Head(handled).MemberId
         IN  NoteInserted(IF id \in DOMAIN members_after
                             /\ \A k \in DOMAIN keys : keys[k] # id
                          THEN Append(keys, id)
                          ELSE keys,
                          Tail(handled), members_after)

\* read_json raises requests.RequestException (line 61, handler lines 104-107)
RequestFails ==
    /\ pc = "walk"
    /\ division_no < DIVISION_END
    /\ \E r \in ResponseFor(division_no) :
        /\ r.status # 200
        /\ division_no' = HandleRequestException(division_no)
        /\ last' = [NoPass EXCEPT !.division_no = division_no, !.outcome = "not_exist",
                                  !.raised = "RequestException"]
    /\ UNCHANGED <<pc, divisions, members, first_seen, api,
                   division_keys, member_keys, dat_file, txt_file>>

\* one pass of the loop whose fetch succeeds (lines 53-111)
ReadDivision ==
    /\ pc = "walk"
    /\ division_no < DIVISION_END
    /\ \E r \in ResponseFor(division_no) :
        /\ r.status = 200
        /\ LET res == ProcessDocument(divisions, members, r.json)
           IN  /\ divisions' = res.divisions
               /\ members' = res.members
               /\ division_no' = IF res.outcome = "error"
                                 THEN HandleException(division_no)
                                 ELSE division_no + 1
               /\ first_seen' = NoteFirstSeen(first_seen, res.handled)
               /\ division_keys' = IF res.DivisionId \in DOMAIN res.divisions
                                      /\ res.DivisionId \notin DOMAIN divisions
                                   THEN Append(division_keys, res.DivisionId)
                                   ELSE division_keys
               /\ member_keys' = NoteInserted(member_keys, res.handled, res.members)
               /\ last' = [division_no |-> division_no, outcome |-> res.outcome,
                           raised |-> res.raised, decoded |-> res.decoded,
                           admitted |-> res.admitted,
                           known |-> res.DivisionId \in DOMAIN divisions,
                           DivisionId |-> res.DivisionId, Date |-> res.Date,
                           listed |-> res.listed,
                           printed |-> res.printed, attempts |-> res.attempts]
    /\ UNCHANGED <<pc, api, dat_file, txt_file>>

\* the range is exhausted: the summary of lines 113-114 is printed
EndWalk ==
    /\ pc = "walk"
    /\ division_no >= DIVISION_END
    /\ pc' = "walked"
    /\ UNCHANGED <<division_no, divisions, members, last, first_seen, api,
                   division_keys, member_keys, dat_file, txt_file>>

\* writer.write_dat_file(processor.divisions, processor.members) (main.py:49)
WriteDatFile ==
    /\ WriterReached(pc)
    /\ dat_file' = DatFile(divisions, division_keys, members, member_keys)
    /\ members' = MembersAfterWrite(divisions, members)
    /\ pc' = "dat_written"
    /\ UNCHANGED <<division_no, divisions, last, first_seen, api,
                   division_keys, member_keys, txt_file>>

\* writer.write_txt_file(processor.members) (main.py:50), then return 0
WriteTxtFile ==
    /\ pc = "dat_written"
    /\ txt_file' = TxtFile(members, member_keys)
    /\ pc' = "complete"
    /\ UNCHANGED <<division_no, divisions, members, last, first_seen, api,
                   division_keys, member_keys, dat_file>>

\* Ctrl-C between two steps of main's try block: no handler of read_divisions
\* catches it ("except Exception"), main prints and returns 130 (main.py:58-60)
KeyboardInterrupt ==
    /\ pc \in {"walk", "walked", "dat_written"}
    /\ pc' = "interrupted"
    /\ UNCHANGED <<division_no, divisions, members, last, first_seen, api,
                   division_keys, member_keys, dat_file, txt_file>>

Next ==
    \/ RequestFails
    \/ ReadDivision
    \/ EndWalk
    \/ WriteDatFile
    \/ WriteTxtFile
    \/ KeyboardInterrupt

Spec == Init /\ [][Next]_vars

\* A run whose responses are fixed before the walk starts: every id of the range
\* gets one response, a document or a failed fetch.
MirrorId(no) == DIVISION_START + DIVISION_END - 1 - no

\* a document in which some category fields are absent
SparseDocs(no) ==
    { Without(RawDocument(no, InRangeString, "Bill A", OneAye), fields) :
        fields \in { {"NoVoteRecorded"},
                     {"AyeTellers", "Noes", "NoTellers", "NoVoteRecorded"},
                     {"Ayes", "AyeTellers", "Noes", "NoTellers", "NoVoteRecorded"} } }

FixedDocs(no) ==
    { RawDocument(id, InRangeString, "Bill A", ListsOf(es)) :
        id \in DivisionIds(no) \cup {MirrorId(no)},
        es \in { <<<<1, MemberJson(5, Jo)>>>>,
                 <<<<3, MemberJson(5, JDot)>>, <<4, MemberJson(6, CherYL)>>>>,
                 <<<<1, MemberJson(5, Jo)>>, <<1, MemberJson(6, Nameless)>>>>,
                 <<<<2, MemberJson(6, CherYL)>>, <<5, MemberJson(5, Jo)>>>> } }
        \cup { RawDocument(no, [day |-> DATE_END + 1, hhmm |-> 0, suffix |-> ""],
                           "Bill B", OneAye) }
        \cup SparseDocs(no)

FixedResponses(no) ==
    { [status |-> 200, json |-> d] : d \in FixedDocs(no) }
        \cup { [status |-> 404, json |-> NoJson] }

InitFixed ==
    /\ pc = "walk"
    /\ division_no = DIVISION_START
    /\ divisions = <<>>
    /\ members = <<>>
    /\ last = NoPass
    /\ first_seen = <<>>
    /\ division_keys = <<>>
    /\ member_keys = <<>>
    /\ dat_file = NoFile
    /\ txt_file = NoFile
    /\ api \in { f \in [DivisionNos -> UNION { FixedResponses(n) : n \in DivisionNos }] :
                   \A n \in DivisionNos : f[n] \in FixedResponses(n) }

SpecFixed == InitFixed /\ [][Next]_vars

\* The registries read_divisions builds when it walks only the ids of nos (an
\* ascending sequence), each of which answers with the document docs[id].
RECURSIVE RunOver(_, _, _, _)
RunOver(divs, mems, nos, docs) ==
    IF nos = <<>> THEN [divisions |-> divs, members |-> mems]
    ELSE LET res == ProcessDocument(divs, mems, docs[Head(nos)])
         IN  RunOver(res.divisions, res.members, Tail(nos), docs)

\* ------------------------------------------------------------------ the claims
\* a pass of the loop of read_divisions
Pass == division_no' = division_no + 1

VoteKeys(ms) == UNION { { <<m, e>> : e \in DOMAIN ms[m].division_votes } : m \in DOMAIN ms }

\* C1: once an (entity, event) pair has a stored outcome no step changes or
\* removes it, and no entity or vote entry ever disappears: every vote map only
\* grows.
C1_StoredVotesKept ==
    [][\A m \in DOMAIN members :
          /\ m \in DOMAIN members'
          /\ \A e \in DOMAIN members[m].division_votes :
                /\ e \in DOMAIN members'[m].division_votes
                /\ members'[m].division_votes[e] = members[m].division_votes[e]]_vars

\* a second assignment attempt with another outcome was made and reported, and
\* the stored outcome is the original one
C1_Witness ==
    \E i \in DOMAIN last.printed :
        /\ last.printed[i].Vote # last.printed[i].existing
        /\ members[last.printed[i].MPid].division_votes[last.printed[i].DivisionId]
              = last.printed[i].existing

\* the given name, surname and party the split rule gives for one entry
GivenName(name) == IF SplitMax1(name) = <<>> THEN <<>> ELSE SplitMax1(name)[1]

Surname(name) == IF Len(SplitMax1(name)) > 1 THEN SplitMax1(name)[2] ELSE <<>>

PreferredParty(entry) ==
    IF entry.PartyAbbreviation \in {None, ""} THEN entry.Party ELSE entry.PartyAbbreviation

\* C2: the name and party stored for an entity id are those of the first
\* occurrence of that id in processing order.
C2_FirstSeenIdentity ==
    \A m \in DOMAIN members :
        /\ m \in DOMAIN first_seen
        /\ members[m].first_name = GivenName(first_seen[m].Name)
        /\ members[m].surname = Surname(first_seen[m].Name)
        /\ members[m].party = PreferredParty(first_seen[m])

\* C3: an EventSummary is never mutated after creation: a record carrying an
\* event id that is already registered leaves the stored date and title.
C3_EventNeverOverwritten ==
    [][\A d \in DOMAIN divisions :
          d \in DOMAIN divisions' /\ divisions'[d] = divisions[d]]_vars

\* C4: a pass given an admitted record whose event id is already registered
\* applies none of its categories: the entity registry is left as it was.
C4_DuplicateEventSkipped ==
    [][(Pass /\ last'.admitted /\ last'.DivisionId \in DOMAIN divisions)
          => members' = members]_vars

\* C5: a decoded event whose timestamp carries no offset is admitted iff its
\* date lies in [DATE_START, DATE_END], whatever its time of day.
C5_DateOnlyInclusiveRange ==
    (last.decoded /\ last.Date.suffix = "")
        => (last.admitted <=> (DATE_START <= last.Date.day /\ last.Date.day <= DATE_END))

\* C6: a decoded event whose timestamp ends in "Z" and whose date is in range
\* is registered and aggregated, never skipped as a failure.
C6_ZuluTimestampProcessed ==
    (last.decoded /\ last.Date.suffix = "Z"
        /\ DATE_START <= last.Date.day /\ last.Date.day <= DATE_END)
        => /\ last.outcome = "stored"
           /\ last.DivisionId \in DOMAIN divisions

\* C7: a pass that records a failure for its id adds that id to neither
\* registry and creates no EntitySummary.
C7_FailedIdAbsent ==
    [][(Pass /\ last'.outcome \in {"not_exist", "error"})
          => /\ division_no \notin DOMAIN divisions => division_no \notin DOMAIN divisions'
             /\ \A p \in VoteKeys(members') \ VoteKeys(members) : p[2] # division_no
             /\ DOMAIN members' = DOMAIN members]_vars

\* the categories of the latest document that list member id m
ListedIn(m) == { i \in DOMAIN last.listed : \E k \in DOMAIN last.listed[i] : last.listed[i][k] = m }

Earliest(cats) == CHOOSE i \in cats : \A j \in cats : i <= j

\* C8: an entity listed in two or more categories of one admitted event has the
\* outcome of the earliest of them stored, and each later one is reported.
C8_EarliestCategoryWins ==
    last.admitted =>
        \A m \in MemberIds :
            Cardinality(ListedIn(m)) >= 2 =>
                /\ m \in DOMAIN members
                /\ last.DivisionId \in DOMAIN members[m].division_votes
                /\ members[m].division_votes[last.DivisionId] = CategoryVote[Earliest(ListedIn(m))]
                /\ \A j \in ListedIn(m) \ {Earliest(ListedIn(m))} :
                      \E i \in DOMAIN last.printed :
                          /\ last.printed[i].MPid = m
                          /\ last.printed[i].Vote = CategoryVote[j]

\* C9: a pass prints exactly one Duplicate message for each assignment attempt
\* on a pair that already has an outcome and none for the others: the attempts
\* that printed nothing are exactly those that added an entry, every message
\* names the outcome that stays stored, and after a message the pass goes on to
\* the remaining entries and the walk to the next id.
C9_OneReportPerConflict ==
    [][Pass =>
          /\ Len(last'.printed) + Cardinality(VoteKeys(members') \ VoteKeys(members))
                = last'.attempts
          /\ \A i \in DOMAIN last'.printed :
                LET msg == last'.printed[i]
                IN  /\ <<msg.MPid, msg.DivisionId>> \in VoteKeys(members')
                    /\ members'[msg.MPid].division_votes[msg.DivisionId] = msg.existing
                    /\ msg.DivisionId = last'.DivisionId
          /\ (last'.printed # <<>> /\ last'.raised = "")
                => /\ last'.outcome = "stored"
                   /\ last'.attempts = Len(last'.listed[1]) + Len(last'.listed[2])
                         + Len(last'.listed[3]) + Len(last'.listed[4]) + Len(last'.listed[5])
                   /\ pc' = "walk"]_vars

\* Aye then No for the same pair: Aye stays and one conflict is printed
C9_Witness ==
    /\ last.outcome = "stored"
    /\ Len(last.printed) = 1
    /\ last.printed[1].Vote = No
    /\ last.printed[1].existing = Aye
    /\ members[last.printed[1].MPid].division_votes[last.DivisionId] = Aye

\* the ids of the range whose fetch succeeds, ascending, from id no on
RECURSIVE FetchedFrom(_)
FetchedFrom(no) ==
    IF no >= DIVISION_END THEN <<>>
    ELSE IF api[no].status = 200 THEN <<no>> \o FetchedFrom(no + 1)
    ELSE FetchedFrom(no + 1)

\* C10: with the responses fixed, the registries at the end of the walk are
\* those of a walk over only the ids whose fetch succeeds.
C10_FetchFailuresLeftOut ==
    pc = "walked" =>
        LET docs == [n \in DivisionNos |-> api[n].json]
            ref  == RunOver(<<>>, <<>>, FetchedFrom(DIVISION_START), docs)
        IN  divisions = ref.divisions /\ members = ref.members

\* a fetch failed and a later id was registered
C10_Witness ==
    /\ pc = "walked"
    /\ \E n \in DivisionNos : \E k \in DivisionNos :
          /\ n < k
          /\ api[n].status = 404
          /\ api[k].status = 200
          /\ api[k].json.DivisionId \in DOMAIN divisions

\* ---------------------------------------------------------- the claims on the output
\* the matrix file has been written in full
DatWritten == pc \in {"dat_written", "complete"}

\* the position of a key in a dict's insertion order
PositionIn(keys, id) == CHOOSE k \in DOMAIN keys : keys[k] = id

\* the text of the cell of event e and entity m, if the file has exactly one such cell
CellsOf(e, m) ==
    { dat_file.rows[i].cells[j] :
        i \in { r \in DOMAIN dat_file.rows : dat_file.rows[r].rowid = e },
        j \in { c \in DOMAIN dat_file.columns : dat_file.columns[c] = <<"mpid", m>> } }

\* C11: once the matrix is written, for every registered event e and every
\* registered entity m the cell (e, m) holds the outcome stored for m at e if
\* there is one and -9 (Missing) otherwise.
C11_DefaultFill ==
    DatWritten =>
        \A e \in DOMAIN divisions : \A m \in DOMAIN members :
            CellsOf(e, m) = { IF e \in DOMAIN members[m].division_votes
                              THEN VoteText(members[m].division_votes[e])
                              ELSE "-9" }

\* the matrix is written with a stored cell, and with an unset cell of an entity
\* that was created only after the event of that cell was stored
C11_Witness ==
    /\ DatWritten
    /\ \E e \in DOMAIN divisions : \E m \in DOMAIN members :
        /\ e \notin DOMAIN members[m].division_votes
        /\ members[m].division_votes # <<>>
        /\ \A k \in DOMAIN members[m].division_votes :
              /\ k \in DOMAIN divisions
              /\ PositionIn(division_keys, k) > PositionIn(division_keys, e)
        /\ CellsOf(e, m) = {"-9"}
        /\ \E n \in DOMAIN members : e \in DOMAIN members[n].division_votes
                                     /\ CellsOf(e, n) # {"-9"}

\* the ids of a sequence of keys are strictly ascending
Ascending(ids) == \A i, j \in DOMAIN ids : i < j => ids[i] < ids[j]

\* C12: the matrix has exactly one row per registered event, in strictly
\* ascending event id order, and exactly one vote column per registered entity,
\* in strictly ascending entity id order; the cells of every row follow the
\* order of the header's columns, whatever the insertion order was.
C12_DeterministicOrdering ==
    DatWritten =>
        LET rowids == [i \in DOMAIN dat_file.rows |-> dat_file.rows[i].rowid]
            colids == [j \in DOMAIN dat_file.columns |-> dat_file.columns[j][2]]
        IN  /\ Ascending(rowids)
            /\ { rowids[i] : i \in DOMAIN rowids } = DOMAIN divisions
            /\ Ascending(colids)
            /\ { colids[j] : j \in DOMAIN colids } = DOMAIN members
            /\ \A j \in DOMAIN colids : dat_file.columns[j][1] = "mpid"
            /\ \A i \in DOMAIN rowids :
                /\ DOMAIN dat_file.rows[i].cells = DOMAIN colids
                /\ \A j \in DOMAIN colids :
                      dat_file.rows[i].cells[j] =
                          IF rowids[i] \in DOMAIN members[colids[j]].division_votes
                          THEN VoteText(members[colids[j]].division_votes[rowids[i]])
                          ELSE "-9"

\* the matrix is written from registries whose events and whose entities were
\* both inserted in descending id order
C12_Witness ==
    /\ DatWritten
    /\ Len(division_keys) > 1 /\ division_keys[1] > division_keys[2]
    /\ Len(member_keys) > 1 /\ member_keys[1] > member_keys[2]
    /\ Len(dat_file.rows) = Len(division_keys)
    /\ Len(dat_file.columns) = Len(member_keys)

\* the step in which main calls write_dat_file
Materialize == pc = "walked" /\ pc' = "dat_written"

\* C13: writing the matrix leaves the event registry and the entity registry
\* (their keys, their order and every stored outcome) as they were, and writing
\* it again from the registries it left yields the same file.
C13_PureProjection ==
    [][Materialize =>
          /\ divisions' = divisions
          /\ members' = members
          /\ division_keys' = division_keys
          /\ member_keys' = member_keys
          /\ DatFile(divisions', division_keys', members', member_keys') = dat_file']_vars

\* the matrix was written with a cell that had no stored outcome behind it
C13_Witness ==
    /\ pc = "dat_written"
    /\ dat_file.rows # <<>>
    /\ dat_file.columns # <<>>
    /\ \E e \in DOMAIN divisions : \E m \in DOMAIN members :
          e \notin DOMAIN members[m].division_votes

\* neither output file exists
NoOutput == dat_file = NoFile /\ txt_file = NoFile

\* C14: while the walk over the id range is still going on no output file
\* exists, and no step taken during the walk (the next pass, the end of the walk
\* or an interrupt) creates one: the matrix and the metadata file are written
\* only after the walk, and an interrupted walk leaves none.
C14_OutputOnlyAfterWalk ==
    [][(pc = "walk" \/ division_no < DIVISION_END) => NoOutput /\ NoOutput']_vars

\* the walk was interrupted after it had filled both registries and before the
\* last id: no file exists
C14_Witness ==
    /\ pc = "interrupted"
    /\ division_no < DIVISION_END
    /\ divisions # <<>>
    /\ members # <<>>
    /\ NoOutput

\* the latest pass reached line 70 with an event whose id was new and whose five
\* lists are pairwise disjoint
FreshDisjointAdmitted ==
    /\ last.admitted
    /\ ~last.known
    /\ \A m \in MemberIds : Cardinality(ListedIn(m)) <= 1

\* C15: after an admitted event with a fresh id and pairwise disjoint lists has
\* been processed, an entity of the affirmative list holds 2 for it, of the
\* affirmative tellers 1, of the negative list 4, of the negative tellers 5, of
\* the not-recorded list -9, and an entity of no list holds no entry for it.
C15_CategoryDeterminesOutcome ==
    FreshDisjointAdmitted =>
        \A m \in MemberIds :
            /\ \A c \in ListedIn(m) :
                  /\ m \in DOMAIN members
                  /\ last.DivisionId \in DOMAIN members[m].division_votes
                  /\ members[m].division_votes[last.DivisionId] = <<2, 1, 4, 5, -9>>[c]
            /\ (ListedIn(m) = {} /\ m \in DOMAIN members) =>
                  last.DivisionId \notin DOMAIN members[m].division_votes

\* the latest document was decoded with a date-only or naive timestamp whose
\* calendar day lies outside [DATE_START, DATE_END]
DayOutOfRange(pass) ==
    /\ pass.decoded
    /\ pass.Date.suffix = ""
    /\ (pass.Date.day < 20191211 \/ pass.Date.day > 20240703)

\* C16: a pass whose event is rejected by the date filter, and so every pass
\* whose event lies outside the date range, changes neither registry: no event
\* is stored, no entity is created and no outcome is added.
C16_RejectedEventNoEffect ==
    [][(Pass /\ (last'.outcome = "rejected" \/ DayOutOfRange(last'))) =>
          /\ last'.outcome = "rejected"
          /\ divisions' = divisions
          /\ members' = members
          /\ division_keys' = division_keys
          /\ member_keys' = member_keys]_vars

\* an event in range was stored with an entity, then an event with another id
\* that lists an entity was rejected: the registries hold the first event only
C16_Witness ==
    /\ last.outcome = "rejected"
    /\ DayOutOfRange(last)
    /\ \E m \in MemberIds : ListedIn(m) # {}
    /\ last.DivisionId \notin DOMAIN divisions
    /\ DOMAIN divisions = {DIVISION_START}
    /\ \E m \in DOMAIN members : DOMAIN members[m].division_votes = {DIVISION_START}

\* C17: while the walk is going on, every step is either a pass that attempts
\* exactly the current id and moves to the next one (whether the fetch failed,
\* the document was rejected, or processing raised), the end of the walk once
\* the id after the last has been reached, or an interrupt: every id of the
\* range is attempted once, in ascending order, and nothing else ends the loop.
C17_WalkNeverStops ==
    [][pc = "walk" =>
          \/ /\ division_no < DIVISION_END
             /\ division_no' = division_no + 1
             /\ last'.division_no = division_no
             /\ pc' = "walk"
          \/ /\ division_no = DIVISION_END
             /\ division_no' = division_no
             /\ pc' = "walked"
          \/ pc' = "interrupted"]_vars

\* the walk reached its end although the pass for the last id raised and no
\* earlier pass stored anything
C17_Witness ==
    /\ pc = "walked"
    /\ division_no = DIVISION_END
    /\ last.division_no = DIVISION_END - 1
    /\ last.outcome = "error"
    /\ divisions = <<>>

\* the document with every absent category field present and empty
Dense(raw_data) ==
    [f \in DOMAIN raw_data \cup { CategoryFields[i] : i \in DOMAIN CategoryFields } |->
        IF f \in DOMAIN raw_data THEN raw_data[f] ELSE <<>>]

\* the category fields a document lacks
AbsentCategories(raw_data) ==
    { CategoryFields[i] : i \in DOMAIN CategoryFields } \ DOMAIN raw_data

\* C18: a pass on a document in which category fields are absent leaves the
\* registries that the same document with those fields present and empty would
\* leave, and ends the same way: an absent category is no error.
C18_MissingCategoryTolerated ==
    [][(Pass /\ api[division_no].status = 200) =>
          LET dense == ProcessDocument(divisions, members, Dense(api[division_no].json))
          IN  /\ divisions' = dense.divisions
              /\ members' = dense.members
              /\ last'.outcome = dense.outcome
              /\ last'.raised = dense.raised
              /\ last'.printed = dense.printed]_vars

\* the latest pass stored a document that lacks category fields and lists an
\* entity in a category it has
C18_Witness ==
    /\ last.division_no \in DOMAIN api
    /\ api[last.division_no].status = 200
    /\ AbsentCategories(api[last.division_no].json) # {}
    /\ last.outcome = "stored"
    /\ \E m \in DOMAIN members : last.DivisionId \in DOMAIN members[m].division_votes

\* the texts of all cells of the matrix file
CellTexts ==
    { dat_file.rows[i].cells[j] :
        i \in DOMAIN dat_file.rows, j \in DOMAIN dat_file.columns }

\* C19: no vote map ever holds Both (3): every stored outcome is one of -9, 1,
\* 2, 4, 5, and every cell of the written matrix is the text of one of them.
C19_OnlyFiveCodes ==
    /\ \A m \in DOMAIN members : \A e \in DOMAIN members[m].division_votes :
          members[m].division_votes[e] \in {-9, 1, 2, 4, 5}
    /\ DatWritten => CellTexts \subseteq {"-9", "1", "2", "4", "5"}

\* the matrix is written with several different codes, from vote maps that hold
\* a teller code and an explicit -9
C19_Witness ==
    /\ DatWritten
    /\ Cardinality(CellTexts) >= 3
    /\ \E m \in DOMAIN members : \E e \in DOMAIN members[m].division_votes :
          members[m].division_votes[e] = -9
    /\ \E m \in DOMAIN members : \E e \in DOMAIN members[m].division_votes :
          members[m].division_votes[e] \in {1, 5}

\* C20: every event id under which some entity holds an outcome is a key of the
\* event registry, so that once the matrix is written the outcome is in the row
\* of that event.
C20_ReferentialIntegrity ==
    \A m \in DOMAIN members : \A e \in DOMAIN members[m].division_votes :
        /\ e \in DOMAIN divisions
        /\ DatWritten => CellsOf(e, m) = {VoteText(members[m].division_votes[e])}

\* the matrix is written after a pass that stored an outcome and then raised
C20_Witness ==
    /\ DatWritten
    /\ last.outcome = "error"
    /\ last.admitted
    /\ \E m \in DOMAIN members : last.DivisionId \in DOMAIN members[m].division_votes

\* every entity of a registry holds at least one outcome
NoEmptyEntity(ms) == \A m \in DOMAIN ms : ms[m].division_votes # <<>>

\* C21: no entity is in the registry without a recorded outcome: the registry
\* left by every pass, completed or ended by an exception, has no entity with an
\* empty vote map, and while the walk goes on handling one more list entry (any
\* entity, any event id, any of the five codes) from it leaves none either.
C21_NoEmptyEntity ==
    /\ NoEmptyEntity(members)
    /\ pc = "walk" =>
          \A member \in MemberData : \A division_id \in DivisionNos :
              \A i \in DOMAIN CategoryVote :
                  NoEmptyEntity(AddMemberVote([members |-> members, printed |-> <<>>,
                                               attempts |-> 0, handled |-> <<>>,
                                               raised |-> ""],
                                              division_id, member, CategoryVote[i]).members)

\* a pass on a new event created an entity from its not-recorded list, so that
\* the only outcome the entity holds is -9; the registry holds another entity too
C21_Witness ==
    /\ last.admitted
    /\ ~last.known
    /\ \E m \in DOMAIN members :
          /\ 5 \in ListedIn(m)
          /\ DOMAIN members[m].division_votes = {last.DivisionId}
          /\ members[m].division_votes[last.DivisionId] = -9
    /\ Cardinality(DOMAIN members) > 1

====
